---- MODULE Spec2Model ----
(***************************************************************************)
(* A model of padlock.py: the single-pass parser `parse`, its three-state  *)
(* machine (idle / raw / blank), the cursor path `stack_ptr` and the       *)
(* append-only nested AST built through AST.push.                          *)
(*                                                                         *)
(* A character is modelled by a string: the six emoji by their Unicode     *)
(* names, the six ASCII replacements by themselves, "a" for any other      *)
(* non-whitespace character and " " for whitespace.                        *)
(* An AST element is a record: an Instruction is the namedtuple itself     *)
(* ([name, symbol, args, processes]), a name literal is [str |-> chars]    *)
(* and a nested branch is [list |-> elements]; the root branch             *)
(* (AST.instructions) is the sequence held in `ast`.                       *)
(***************************************************************************)
EXTENDS Integers, Sequences, FiniteSets, TLC

VARIABLES stream, i, state, ast, stack_ptr, instruction, name_count,
          name_stack, pc, exc, utf8_names, ascii_symbols

vars == <<stream, i, state, ast, stack_ptr, instruction, name_count,
          name_stack, pc, exc, utf8_names, ascii_symbols>>

\* ---------------------------------------------------------------- bounds
\* Longest input read under Spec (full alphabet).
MaxLen == 4
\* Longest input read under SpecDeep (instruction symbols only).
MaxDeep == 6

\* ------------------------------------------------------------- constants
Symbol ==
  [lock    |-> "LOCK",
   unlock  |-> "OPEN LOCK",
   key     |-> "KEY",
   pen     |-> "LOWER LEFT FOUNTAIN PEN",
   keylock |-> "CLOSED LOCK WITH KEY",
   penlock |-> "LOCK WITH INK PEN"]

Instruction(n, s, a, p) == [name |-> n, symbol |-> s, args |-> a, processes |-> p]

nil == Instruction("nil", Symbol.lock, 0, 0)

split == Instruction("split", Symbol.unlock, 0, 2)

decrypt == Instruction("decrypt", Symbol.key, 2, 1)

name == Instruction("name", Symbol.pen, 1, 1)

send == Instruction("send", Symbol.keylock, 2, 1)

receive == Instruction("receive", Symbol.penlock, 2, 1)

instructions == <<nil, split, decrypt, name, send, receive>>

\* symbols with key and pen exchanged in the ASCII set.
symbols_Swapped(ascii) ==
  IF ascii
    THEN <<"N", "S", "P", "K", "E", "R">>
    ELSE <<"LOCK", "OPEN LOCK", "KEY", "LOWER LEFT FOUNTAIN PEN",
           "CLOSED LOCK WITH KEY", "LOCK WITH INK PEN">>

\* The active symbol tuple (lock, unlock, key, pen, keylock, penlock).
symbols(ascii) ==
  IF ascii
    THEN <<"N", "S", "K", "P", "E", "R">>
    ELSE <<"LOCK", "OPEN LOCK", "KEY", "LOWER LEFT FOUNTAIN PEN",
           "CLOSED LOCK WITH KEY", "LOCK WITH INK PEN">>

\* The delimiter: the fourth entry of the active tuple.
pen(ascii) == symbols(ascii)[4]

\* Parser states.
idle == 0

raw == 1

blank == 2

\* str.isspace on the modelled characters.
isspace(char) == char = " "

\* `char in symbols`
InSymbols(char, ascii) == \E k \in 1..Len(symbols(ascii)) : symbols(ascii)[k] = char

\* symbols.index(char), 0-based; only used when char is in the tuple.
index(char, ascii) ==
  (CHOOSE k \in 1..Len(symbols(ascii)) :
     /\ symbols(ascii)[k] = char
     /\ \A j \in 1..(k - 1) : symbols(ascii)[j] # char) - 1

\* ------------------------------------------------------------------- AST
IsInstruction(item) == "name" \in DOMAIN item

IsStr(item) == "str" \in DOMAIN item

IsList(item) == "list" \in DOMAIN item

\* Python's x[k] for a list of length n, as a 1-based position (0 if k is
\* out of range, where Python raises IndexError).
PyIndex(n, k) ==
  LET p == IF k < 0 THEN n + k + 1 ELSE k + 1
  IN IF p >= 1 /\ p <= n THEN p ELSE 0

\* Whether AST.push fails while walking `indices` from branch x: an index out
\* of range, or an element reached that is not a list.
RECURSIVE push_raises(_, _)
push_raises(x, indices) ==
  IF indices = <<>>
    THEN FALSE
    ELSE LET p == PyIndex(Len(x), indices[1])
         IN IF p = 0 THEN TRUE
            ELSE IF ~IsList(x[p]) THEN TRUE
            ELSE push_raises(x[p].list, Tail(indices))

\* push inserting the value at the front of the branch reached.
RECURSIVE push_Front(_, _, _)
push_Front(x, value, indices) ==
  IF indices = <<>>
    THEN <<value>> \o x
    ELSE LET p == PyIndex(Len(x), indices[1])
         IN [x EXCEPT ![p] = [list |-> push_Front(x[p].list, value, Tail(indices))]]

\* AST.push: walk `indices` from branch x and append value to the branch
\* reached; the result is the branch x after the append.
RECURSIVE push(_, _, _)
push(x, value, indices) ==
  IF indices = <<>>
    THEN Append(x, value)
    ELSE LET p == PyIndex(Len(x), indices[1])
         IN [x EXCEPT ![p] = [list |-> push(x[p].list, value, Tail(indices))]]

\* The text of n levels of indentation ("  " * n).
RECURSIVE Indent(_)
Indent(n) == IF n <= 0 THEN <<>> ELSE <<" ", " ">> \o Indent(n - 1)

\* _parse_line rendering the items of a line from last to first.
RECURSIVE _parse_line_Reversed(_, _)
_parse_line_Reversed(line, depth) ==
  IF line = <<>> THEN <<>>
  ELSE LET item == line[Len(line)]
           out  == IF IsInstruction(item)
                     THEN <<[kind |-> "Instruction", text |-> <<item.symbol, " ">>]>>
                   ELSE IF IsStr(item)
                     THEN <<[kind |-> "str", text |-> <<"'">> \o item.str \o <<"'", " ">>]>>
                   ELSE <<[kind |-> "indent", text |-> <<"\n">> \o Indent(depth + 1)]>>
                        \o _parse_line_Reversed(item.list, depth + 1)
       IN out \o _parse_line_Reversed(SubSeq(line, 1, Len(line) - 1), depth)

\* AST._parse_line: the pieces appended to `out`, in order, with the pieces
\* of a nested line in place of its rendering; the string returned is the
\* concatenation of their texts.
RECURSIVE _parse_line(_, _)
_parse_line(line, depth) ==
  IF line = <<>> THEN <<>>
  ELSE LET item == line[1]
           out  == IF IsInstruction(item)
                     THEN <<[kind |-> "Instruction", text |-> <<item.symbol, " ">>]>>
                   ELSE IF IsStr(item)
                     THEN <<[kind |-> "str", text |-> <<"'">> \o item.str \o <<"'", " ">>]>>
                   ELSE <<[kind |-> "indent", text |-> <<"\n">> \o Indent(depth + 1)]>>
                        \o _parse_line(item.list, depth + 1)
       IN out \o _parse_line(Tail(line), depth)

\* AST.__str__
__str__(x) == _parse_line(x, 0)

\* ----------------------------------------------------------- exceptions
NoException == [type |-> "none", msg |-> [text |-> ""]]

\* InvalidSymbol: the message interpolates the character and its position.
InvalidSymbol(char, pos) ==
  [type |-> "InvalidSymbol", msg |-> [char |-> char, position |-> pos]]

\* InvalidArgumentCount: the message interpolates name, arity and count.
InvalidArgumentCount(ins, count) ==
  [type |-> "InvalidArgumentCount",
   msg |-> [name |-> ins.name, args |-> ins.args, name_count |-> count]]

\* UnexpectedEOF: a fixed message.
UnexpectedEOF(text) == [type |-> "UnexpectedEOF", msg |-> [text |-> text]]

\* An exception escaping AST.push (unhandled by parse).
PushError == [type |-> "IndexError", msg |-> [text |-> "push"]]

Raise(m, e) == [m EXCEPT !.pc = "raised", !.exc = e]

\* ------------------------------------------------------- the parser steps
\* The local state of parse after its initialisation.
initial ==
  [state |-> idle, ast |-> <<>>, stack_ptr |-> <<>>, instruction |-> nil,
   name_count |-> 0, name_stack |-> <<>>, pc |-> "loop", exc |-> NoException]

\* while stack_ptr[-1] == -1: stack_ptr.pop()   (until the path is empty or
\* ends with another directive)
RECURSIVE pop_second(_)
pop_second(sp) ==
  IF sp # <<>> /\ sp[Len(sp)] = -1
    THEN pop_second(SubSeq(sp, 1, Len(sp) - 1))
    ELSE sp

\* escape removing at most one trailing -1 directive (`if` for `while`).
escape_PopOne(m) ==
  LET sp == IF m.stack_ptr # <<>> /\ m.stack_ptr[Len(m.stack_ptr)] = -1
              THEN SubSeq(m.stack_ptr, 1, Len(m.stack_ptr) - 1)
              ELSE m.stack_ptr
  IN IF sp = <<>>
       THEN [m EXCEPT !.stack_ptr = sp, !.state = blank]
       ELSE [m EXCEPT !.stack_ptr = [sp EXCEPT ![Len(sp)] = -1]]

\* escape appending -1 to the path instead of replacing its last directive.
escape_Append(m) ==
  LET sp == pop_second(m.stack_ptr)
  IN IF sp = <<>>
       THEN [m EXCEPT !.stack_ptr = sp, !.state = blank]
       ELSE [m EXCEPT !.stack_ptr = Append(sp, -1)]

\* escape without the loop that removes the trailing -1 directives.
escape_NoPop(m) ==
  LET sp == m.stack_ptr
  IN IF sp = <<>>
       THEN [m EXCEPT !.state = blank]
       ELSE [m EXCEPT !.stack_ptr = [sp EXCEPT ![Len(sp)] = -1]]

\* The nil case: escape from the current branch.
escape(m) ==
  LET sp == pop_second(m.stack_ptr)
  IN IF sp = <<>>
       THEN [m EXCEPT !.stack_ptr = sp, !.state = blank]
       ELSE [m EXCEPT !.stack_ptr = [sp EXCEPT ![Len(sp)] = -1]]

\* branch appending a single new branch.
branch_OneList(m) ==
  IF push_raises(m.ast, m.stack_ptr)
    THEN Raise(m, PushError)
    ELSE [m EXCEPT
            !.ast = push(m.ast, [list |-> <<>>], m.stack_ptr),
            !.stack_ptr = Append(m.stack_ptr, -1)]

\* branch descending into the second of the new branches.
branch_SecondFirst(m) ==
  IF push_raises(m.ast, m.stack_ptr)
    THEN Raise(m, PushError)
    ELSE [m EXCEPT
            !.ast = push(push(m.ast, [list |-> <<>>], m.stack_ptr),
                         [list |-> <<>>], m.stack_ptr),
            !.stack_ptr = Append(m.stack_ptr, -1)]

\* The split case: two new branches, then descend into the first.
branch(m) ==
  IF push_raises(m.ast, m.stack_ptr)
    THEN Raise(m, PushError)
    ELSE [m EXCEPT
            !.ast = push(push(m.ast, [list |-> <<>>], m.stack_ptr),
                         [list |-> <<>>], m.stack_ptr),
            !.stack_ptr = Append(m.stack_ptr, -2)]

\* idle_char raising InvalidArgumentCount on a delimiter read while the count
\* of the previous instruction equals its arity.
idle_char_CountsDelimiter(m, char, ascii) ==
  IF ~InSymbols(char, ascii)
    THEN m
    ELSE IF char = pen(ascii) /\ m.instruction.args > 0
              /\ m.name_count = m.instruction.args
      THEN Raise(m, InvalidArgumentCount(m.instruction, m.name_count + 1))
    ELSE LET ins == instructions[index(char, ascii) + 1]
             m0  == [m EXCEPT !.instruction = ins]
         IN IF push_raises(m.ast, m.stack_ptr)
              THEN Raise(m0, PushError)
              ELSE LET m1 == [m0 EXCEPT
                                !.ast = push(m.ast, ins, m.stack_ptr),
                                !.name_count = 0]
                   IN IF ins = nil THEN escape(m1)
                      ELSE IF ins = split THEN branch(m1)
                      ELSE [m1 EXCEPT !.state = raw]

\* idle_char raising on a character that is no symbol.
idle_char_Strict(m, char, ascii) ==
  IF ~InSymbols(char, ascii)
    THEN Raise(m, InvalidSymbol(char, 0))
    ELSE LET ins == instructions[index(char, ascii) + 1]
             m0  == [m EXCEPT !.instruction = ins]
         IN IF push_raises(m.ast, m.stack_ptr)
              THEN Raise(m0, PushError)
              ELSE LET m1 == [m0 EXCEPT
                                !.ast = push(m.ast, ins, m.stack_ptr),
                                !.name_count = 0]
                   IN IF ins = nil THEN escape(m1)
                      ELSE IF ins = split THEN branch(m1)
                      ELSE [m1 EXCEPT !.state = raw]

\* state == idle
idle_char(m, char, ascii) ==
  IF ~InSymbols(char, ascii)
    THEN m
    ELSE LET ins == instructions[index(char, ascii) + 1]
             m0  == [m EXCEPT !.instruction = ins]
         IN IF push_raises(m.ast, m.stack_ptr)
              THEN Raise(m0, PushError)
              ELSE LET m1 == [m0 EXCEPT
                                !.ast = push(m.ast, ins, m.stack_ptr),
                                !.name_count = 0]
                   IN IF ins = nil THEN escape(m1)
                      ELSE IF ins = split THEN branch(m1)
                      ELSE [m1 EXCEPT !.state = raw]

\* delimiter without name_stack.clear().
delimiter_KeepsBuffer(m) ==
  LET count == m.name_count + 1
      m1    == [m EXCEPT !.name_count = count]
      named == [m1 EXCEPT
                  !.ast = push(m.ast, [str |-> m.name_stack], m.stack_ptr)]
  IN IF m.instruction.args > count
       THEN IF push_raises(m.ast, m.stack_ptr) THEN Raise(m1, PushError)
            ELSE named
     ELSE IF m.instruction.args = count
       THEN IF push_raises(m.ast, m.stack_ptr) THEN Raise(m1, PushError)
            ELSE [named EXCEPT !.state = idle]
     ELSE Raise(m1, InvalidArgumentCount(m.instruction, count))

\* delimiter comparing the arity with the count before the increment.
delimiter_OffByOne(m) ==
  LET count == m.name_count + 1
      m1    == [m EXCEPT !.name_count = count]
      named == [m1 EXCEPT
                  !.ast = push(m.ast, [str |-> m.name_stack], m.stack_ptr),
                  !.name_stack = <<>>]
  IN IF m.instruction.args > m.name_count
       THEN IF push_raises(m.ast, m.stack_ptr) THEN Raise(m1, PushError)
            ELSE named
     ELSE IF m.instruction.args = m.name_count
       THEN IF push_raises(m.ast, m.stack_ptr) THEN Raise(m1, PushError)
            ELSE [named EXCEPT !.state = idle]
     ELSE Raise(m1, InvalidArgumentCount(m.instruction, count))

\* state == raw, char == pen
delimiter(m) ==
  LET count == m.name_count + 1
      m1    == [m EXCEPT !.name_count = count]
      named == [m1 EXCEPT
                  !.ast = push(m.ast, [str |-> m.name_stack], m.stack_ptr),
                  !.name_stack = <<>>]
  IN IF m.instruction.args > count
       THEN IF push_raises(m.ast, m.stack_ptr) THEN Raise(m1, PushError)
            ELSE named
     ELSE IF m.instruction.args = count
       THEN IF push_raises(m.ast, m.stack_ptr) THEN Raise(m1, PushError)
            ELSE [named EXCEPT !.state = idle]
     ELSE Raise(m1, InvalidArgumentCount(m.instruction, count))

\* raw_char without the whitespace test.
raw_char_KeepsSpace(m, char, utf8, ascii) ==
  IF char = pen(ascii)
    THEN delimiter(m)
    ELSE IF utf8 \/ InSymbols(char, ascii)
           THEN [m EXCEPT !.name_stack = Append(m.name_stack, char)]
           ELSE m

\* state == raw
raw_char(m, char, utf8, ascii) ==
  IF char = pen(ascii)
    THEN delimiter(m)
    ELSE IF (utf8 /\ ~isspace(char)) \/ InSymbols(char, ascii)
           THEN [m EXCEPT !.name_stack = Append(m.name_stack, char)]
           ELSE m

\* blank_char awaiting an instruction again after a symbol.
blank_char_Restart(m, char, pos, ascii) ==
  IF InSymbols(char, ascii)
    THEN [m EXCEPT !.state = idle]
    ELSE m

\* blank_char reporting a 1-based position.
blank_char_OneBased(m, char, pos, ascii) ==
  IF InSymbols(char, ascii)
    THEN Raise(m, InvalidSymbol(char, pos + 1))
    ELSE m

\* blank_char raising on every character.
blank_char_Strict(m, char, pos, ascii) == Raise(m, InvalidSymbol(char, pos))

\* state == blank
blank_char(m, char, pos, ascii) ==
  IF InSymbols(char, ascii)
    THEN Raise(m, InvalidSymbol(char, pos))
    ELSE m

\* One iteration of the loop over enumerate(stream).
parse_char(m, char, pos, utf8, ascii) ==
  IF m.state = idle THEN idle_char(m, char, ascii)
  ELSE IF m.state = raw THEN raw_char(m, char, utf8, ascii)
  ELSE IF m.state = blank THEN blank_char(m, char, pos, ascii)
  ELSE m

\* eof that falls through without ending the run from blank.
eof_FallsThrough(m) ==
  IF m.state = idle
    THEN Raise(m, UnexpectedEOF("waiting for an instruction"))
  ELSE IF m.state = raw
    THEN Raise(m, UnexpectedEOF("parsing names"))
  ELSE m

\* eof without the check of the raw state.
eof_NoRawCheck(m) ==
  IF m.state = idle
    THEN Raise(m, UnexpectedEOF("waiting for an instruction"))
    ELSE [m EXCEPT !.pc = "returned"]

\* After the loop.
eof(m) ==
  IF m.state = idle
    THEN Raise(m, UnexpectedEOF("waiting for an instruction"))
  ELSE IF m.state = raw
    THEN Raise(m, UnexpectedEOF("parsing names"))
  ELSE [m EXCEPT !.pc = "returned"]

\* The loop from position k (1-based) of s.
RECURSIVE scan(_, _, _, _, _)
scan(m, s, k, utf8, ascii) ==
  IF k > Len(s) \/ m.pc # "loop"
    THEN m
    ELSE scan(parse_char(m, s[k], k - 1, utf8, ascii), s, k + 1, utf8, ascii)

\* parse(stream, utf8_names=utf8, ascii_symbols=ascii) as a function.
parse(s, utf8, ascii) ==
  LET m == scan(initial, s, 1, utf8, ascii)
  IN IF m.pc = "loop" THEN eof(m) ELSE m

\* ------------------------------------------------------------ the machine
Cur ==
  [state |-> state, ast |-> ast, stack_ptr |-> stack_ptr,
   instruction |-> instruction, name_count |-> name_count,
   name_stack |-> name_stack, pc |-> pc, exc |-> exc]

Load(m) ==
  /\ state' = m.state
  /\ ast' = m.ast
  /\ stack_ptr' = m.stack_ptr
  /\ instruction' = m.instruction
  /\ name_count' = m.name_count
  /\ name_stack' = m.name_stack
  /\ pc' = m.pc
  /\ exc' = m.exc

\* Characters other than the active symbols: a letter, whitespace, and one
\* symbol of the inactive set.
Others(ascii) == {"a", " ", symbols(~ascii)[1]}

Alphabet(ascii) == {symbols(ascii)[k] : k \in 1..6} \cup Others(ascii)

\* nil, split, decrypt and the delimiter of the active set.
DeepAlphabet(ascii) == {symbols(ascii)[k] : k \in 1..4}

\* The characters the input may continue with.
Input(chars, max) == IF i < max THEN chars ELSE {}

Start ==
  /\ stream = <<>>
  /\ i = 0
  /\ state = initial.state
  /\ ast = initial.ast
  /\ stack_ptr = initial.stack_ptr
  /\ instruction = initial.instruction
  /\ name_count = initial.name_count
  /\ name_stack = initial.name_stack
  /\ pc = initial.pc
  /\ exc = initial.exc

Init ==
  /\ utf8_names \in BOOLEAN
  /\ ascii_symbols \in BOOLEAN
  /\ Start

Read(char) ==
  /\ pc = "loop"
  /\ stream' = Append(stream, char)
  /\ i' = i + 1
  /\ UNCHANGED <<utf8_names, ascii_symbols>>

AwaitInstruction(char) ==
  /\ state = idle
  /\ Read(char)
  /\ Load(idle_char(Cur, char, ascii_symbols))

CollectingName(char) ==
  /\ state = raw
  /\ Read(char)
  /\ Load(raw_char(Cur, char, utf8_names, ascii_symbols))

PostProgram(char) ==
  /\ state = blank
  /\ Read(char)
  /\ Load(blank_char(Cur, char, i, ascii_symbols))

EndOfInput ==
  /\ pc = "loop"
  /\ Load(eof(Cur))
  /\ UNCHANGED <<stream, i, utf8_names, ascii_symbols>>

Next ==
  \/ \E char \in Input(Alphabet(ascii_symbols), MaxLen) : AwaitInstruction(char)
  \/ \E char \in Input(Alphabet(ascii_symbols), MaxLen) : CollectingName(char)
  \/ \E char \in Input(Alphabet(ascii_symbols), MaxLen) : PostProgram(char)
  \/ EndOfInput

Spec == Init /\ [][Next]_vars

NextDeep ==
  \/ \E char \in Input(DeepAlphabet(ascii_symbols), MaxDeep) : AwaitInstruction(char)
  \/ \E char \in Input(DeepAlphabet(ascii_symbols), MaxDeep) : CollectingName(char)
  \/ \E char \in Input(DeepAlphabet(ascii_symbols), MaxDeep) : PostProgram(char)
  \/ EndOfInput

SpecDeep == Init /\ [][NextDeep]_vars

\* The input is finite and parse runs without suspension: the loop over the
\* input is left, and the code after it runs.
FairSpecDeep == SpecDeep /\ WF_vars(EndOfInput)

TypeOK ==
  /\ state \in {idle, raw, blank}
  /\ pc \in {"loop", "raised", "returned"}
  /\ i = Len(stream)
\* ------------------------------------------------------------ properties
\* The variables of parse other than the loop's position.
locals == <<state, ast, stack_ptr, instruction, name_count, name_stack>>

\* A step that reads one character (an iteration of the loop).
ReadsChar == pc = "loop" /\ i' = i + 1

\* The character read by such a step.
CharRead == stream'[Len(stream')]

\* A step that ends the run at the end of the input.
AtEOF == pc = "loop" /\ pc' # "loop" /\ stream' = stream

\* C1: at the end of the input, parse raises UnexpectedEOF when the machine is
\* idle or raw, and returns the AST (unchanged) when it is blank.
C1_EndOfInput ==
  [][AtEOF =>
       IF state \in {idle, raw}
         THEN pc' = "raised" /\ exc'.type = "UnexpectedEOF"
         ELSE state = blank /\ pc' = "returned" /\ exc'.type = "none"
              /\ ast' = ast]_vars

\* An instruction of arity 2 given one delimiter, then the end of the input.
C1_Witness ==
  /\ pc = "raised"
  /\ exc.type = "UnexpectedEOF"
  /\ state = raw
  /\ instruction.args = 2
  /\ name_count = 1

\* C2 (as claimed): a delimiter that follows the arity-th delimiter of an
\* instruction (nothing but ignored characters in between) makes parse fail
\* with InvalidArgumentCount.
C2_ExtraDelimiterRaises ==
  [][(/\ ReadsChar
      /\ state = idle
      /\ instruction.args > 0
      /\ name_count = instruction.args
      /\ CharRead = pen(ascii_symbols))
       => (pc' = "raised" /\ exc'.type = "InvalidArgumentCount")]_vars

\* C3: in blank an active symbol raises InvalidSymbol; in blank and in idle
\* any other character is skipped: no error and no change of the machine.
C3_SymbolAfterProgram ==
  [][ReadsChar =>
       /\ (state = blank /\ InSymbols(CharRead, ascii_symbols))
            => (pc' = "raised" /\ exc'.type = "InvalidSymbol")
       /\ (state \in {idle, blank} /\ ~InSymbols(CharRead, ascii_symbols))
            => (pc' = "loop" /\ exc'.type = "none" /\ UNCHANGED locals)]_vars

\* A character skipped after the end of the program.
C3_Witness ==
  /\ pc = "loop"
  /\ state = blank
  /\ Len(stream) >= 2
  /\ ~InSymbols(stream[Len(stream)], ascii_symbols)
\* The documented syntax, read by recursive descent over the characters:
\*   Branch ::= nil | split [Branch] [Branch] | op name^arity(op) Branch
\* with characters that are not active symbols skipped between instructions
\* and each name closed by the delimiter.
GSymbolOf(ins, ascii) ==
  IF ~ascii THEN ins.symbol
  ELSE IF ins.symbol = Symbol.lock THEN "N"
  ELSE IF ins.symbol = Symbol.unlock THEN "S"
  ELSE IF ins.symbol = Symbol.key THEN "K"
  ELSE IF ins.symbol = Symbol.pen THEN "P"
  ELSE IF ins.symbol = Symbol.keylock THEN "E"
  ELSE "R"

GIsSymbol(char, ascii) ==
  \E ins \in {nil, split, decrypt, name, send, receive} : GSymbolOf(ins, ascii) = char

GResolve(char, ascii) ==
  CHOOSE ins \in {nil, split, decrypt, name, send, receive} : GSymbolOf(ins, ascii) = char

\* The first position >= p of s holding an active symbol (Len(s) + 1 if none).
RECURSIVE GNextSymbol(_, _, _)
GNextSymbol(s, p, ascii) ==
  IF p > Len(s) THEN Len(s) + 1
  ELSE IF GIsSymbol(s[p], ascii) THEN p
  ELSE GNextSymbol(s, p + 1, ascii)

\* The characters of s[p..q-1] that a name keeps.
GNameChars(s, p, q, utf8, ascii) ==
  SelectSeq(SubSeq(s, p, q - 1),
            LAMBDA c : GIsSymbol(c, ascii) \/ (utf8 /\ c # " "))

\* The first position >= p of s holding the delimiter (Len(s) + 1 if none).
RECURSIVE GNextDelimiter(_, _, _)
GNextDelimiter(s, p, ascii) ==
  IF p > Len(s) THEN Len(s) + 1
  ELSE IF s[p] = GSymbolOf(name, ascii) THEN p
  ELSE GNextDelimiter(s, p + 1, ascii)

\* n names from position p: [ok, items, next].
RECURSIVE GNames(_, _, _, _, _)
GNames(s, p, n, utf8, ascii) ==
  IF n = 0 THEN [ok |-> TRUE, items |-> <<>>, next |-> p]
  ELSE LET q == GNextDelimiter(s, p, ascii)
       IN IF q > Len(s) THEN [ok |-> FALSE, items |-> <<>>, next |-> q]
          ELSE LET rest == GNames(s, q + 1, n - 1, utf8, ascii)
               IN [ok |-> rest.ok,
                   items |-> <<[str |-> GNameChars(s, p, q, utf8, ascii)]>> \o rest.items,
                   next |-> rest.next]

\* One Branch from position p: [ok, items, next].
RECURSIVE GBranch(_, _, _, _)
GBranch(s, p, utf8, ascii) ==
  LET q == GNextSymbol(s, p, ascii)
  IN IF q > Len(s) THEN [ok |-> FALSE, items |-> <<>>, next |-> q]
     ELSE LET op == GResolve(s[q], ascii)
          IN IF op = nil THEN [ok |-> TRUE, items |-> <<nil>>, next |-> q + 1]
             ELSE IF op = split
               THEN LET b1 == GBranch(s, q + 1, utf8, ascii)
                    IN IF ~b1.ok THEN b1
                       ELSE LET b2 == GBranch(s, b1.next, utf8, ascii)
                            IN [ok |-> b2.ok,
                                items |-> <<split, [list |-> b1.items],
                                            [list |-> b2.items]>>,
                                next |-> b2.next]
             ELSE LET ns == GNames(s, q + 1, op.args, utf8, ascii)
                  IN IF ~ns.ok THEN ns
                     ELSE LET b == GBranch(s, ns.next, utf8, ascii)
                          IN [ok |-> b.ok,
                              items |-> <<op>> \o ns.items \o b.items,
                              next |-> b.next]

\* s is exactly one Branch followed by no further active symbol.
GAccepts(s, utf8, ascii) ==
  LET b == GBranch(s, 1, utf8, ascii)
  IN b.ok /\ GNextSymbol(s, b.next, ascii) > Len(s)

\* C4: parse accepts an input only if it is one Branch of the documented
\* syntax followed by no further symbol, and the AST returned is the tree
\* of that Branch; every other finished run is of an input that is not.
C4_Grammar ==
  pc # "loop" =>
    /\ (pc = "returned") = GAccepts(stream, utf8_names, ascii_symbols)
    /\ pc = "returned" => ast = GBranch(stream, 1, utf8_names, ascii_symbols).items

\* An accepted program with a split nested in the first branch of a split.
C4_Witness ==
  /\ pc = "returned"
  /\ Len(ast) = 3
  /\ ast[1] = split
  /\ IsList(ast[2])
  /\ Len(ast[2].list) = 3
  /\ ast[2].list[1] = split
\* Every split of branch x, and of the branches nested in it, is followed by
\* exactly two nested branches, and nested branches occur nowhere else.
RECURSIVE SplitsPaired(_)
SplitsPaired(x) ==
  \A k \in 1..Len(x) :
    /\ x[k] = split =>
         /\ k + 2 <= Len(x)
         /\ IsList(x[k + 1])
         /\ IsList(x[k + 2])
         /\ k + 3 <= Len(x) => ~IsList(x[k + 3])
    /\ IsList(x[k]) =>
         /\ SplitsPaired(x[k].list)
         /\ \/ k >= 2 /\ x[k - 1] = split
            \/ k >= 3 /\ x[k - 2] = split /\ IsList(x[k - 1])

\* The number of pairs of adjacent nested branches in the AST.
RECURSIVE SiblingPairs(_, _)
SiblingPairs(x, k) ==
  IF k > Len(x) THEN 0
  ELSE (IF IsList(x[k]) /\ k < Len(x) /\ IsList(x[k + 1]) THEN 1 ELSE 0)
       + (IF IsList(x[k]) THEN SiblingPairs(x[k].list, 1) ELSE 0)
       + SiblingPairs(x, k + 1)

\* The number of positions of s at which parse, in state st, reads char.
ConsumedIn(s, char, st) ==
  Cardinality({k \in 1..Len(s) :
     /\ s[k] = char
     /\ LET m == scan(initial, SubSeq(s, 1, k - 1), 1, utf8_names, ascii_symbols)
        IN m.pc = "loop" /\ m.state = st})

\* C5: in every state each split of the AST is followed in its branch by
\* exactly two nested branches (so they were appended in the step that
\* appended the split), and the AST of an accepted program has as many
\* sibling pairs as split symbols were read in idle.
C5_SplitPairs ==
  /\ SplitsPaired(ast)
  /\ pc = "returned" =>
       SiblingPairs(ast, 1) = ConsumedIn(stream, symbols(ascii_symbols)[2], idle)

\* An accepted program with two splits, one of them nested.
C5_Witness ==
  /\ pc = "returned"
  /\ SiblingPairs(ast, 1) = 2
  /\ \E k \in 1..Len(ast) : IsList(ast[k]) /\ SiblingPairs(ast[k].list, 1) = 1

\* The number of name literals that directly follow position k of branch x.
RECURSIVE NamesAfter(_, _)
NamesAfter(x, k) ==
  IF k + 1 <= Len(x) /\ IsStr(x[k + 1]) THEN 1 + NamesAfter(x, k + 1) ELSE 0

\* Every instruction of branch x and of its nested branches is followed by
\* at most (exact: exactly) as many name literals as its arity; every name
\* literal follows an instruction or another name literal.
RECURSIVE NamesPerInstruction(_, _)
NamesPerInstruction(x, exact) ==
  \A k \in 1..Len(x) :
    /\ IsInstruction(x[k]) =>
         /\ NamesAfter(x, k) <= x[k].args
         /\ exact => NamesAfter(x, k) = x[k].args
    /\ IsStr(x[k]) => k >= 2 /\ (IsInstruction(x[k - 1]) \/ IsStr(x[k - 1]))
    /\ IsList(x[k]) => NamesPerInstruction(x[k].list, exact)

\* C6: in every state no instruction of the AST is followed by more name
\* literals than its arity, and in the AST of an accepted program by exactly
\* its arity (0 for nil and split, 1 for name, 2 for decrypt, send, receive).
C6_NameCounts ==
  /\ NamesPerInstruction(ast, FALSE)
  /\ pc = "returned" => NamesPerInstruction(ast, TRUE)
  /\ <<nil.args, split.args, name.args, decrypt.args, send.args, receive.args>>
       = <<0, 0, 1, 2, 2, 2>>

\* An accepted program: send with its two names, then nil.
C6_Witness ==
  /\ pc = "returned"
  /\ Len(ast) = 4
  /\ ast[1] = send
  /\ IsStr(ast[2])
  /\ IsStr(ast[3])
  /\ ast[4] = nil
\* s without its p-th character.
RemoveAt(s, p) == SubSeq(s, 1, p - 1) \o SubSeq(s, p + 1, Len(s))

\* C7: whenever the finished run read, in idle or blank, a character that is
\* not an active symbol, the input without that character gives the same
\* outcome (return, or the same exception type) and the same AST. (Every
\* insertion into an input is the removal from the longer one.)
C7_IgnorableInsertion ==
  pc # "loop" =>
    \A p \in 1..Len(stream) :
      LET before == scan(initial, SubSeq(stream, 1, p - 1), 1,
                         utf8_names, ascii_symbols)
      IN (/\ before.pc = "loop"
          /\ before.state \in {idle, blank}
          /\ ~InSymbols(stream[p], ascii_symbols))
           => LET r == parse(RemoveAt(stream, p), utf8_names, ascii_symbols)
              IN r.pc = pc /\ r.exc.type = exc.type /\ r.ast = ast

\* An accepted input with an ignored character before the program and one
\* after it.
C7_Witness ==
  /\ pc = "returned"
  /\ Len(stream) = 3
  /\ ~InSymbols(stream[1], ascii_symbols)
  /\ ~InSymbols(stream[3], ascii_symbols)

\* The map f from the visual symbols to the plain ones; other characters are
\* left alone.
F(char) ==
  IF char = Symbol.lock THEN "N"
  ELSE IF char = Symbol.unlock THEN "S"
  ELSE IF char = Symbol.key THEN "K"
  ELSE IF char = Symbol.pen THEN "P"
  ELSE IF char = Symbol.keylock THEN "E"
  ELSE IF char = Symbol.penlock THEN "R"
  ELSE char

FSeq(s) == [k \in 1..Len(s) |-> F(s[k])]

\* Branch x with every name literal mapped character by character under f.
RECURSIVE FBranch(_)
FBranch(x) ==
  [k \in 1..Len(x) |->
     IF IsStr(x[k]) THEN [str |-> FSeq(x[k].str)]
     ELSE IF IsList(x[k]) THEN [list |-> FBranch(x[k].list)]
     ELSE x[k]]

PlainSymbols == {"N", "S", "K", "P", "E", "R"}

\* C8: for a finished visual-mode run on an input without plain symbols,
\* parsing the image of the input under f in plain mode gives the same
\* outcome and the same AST up to f on the name literals.
C8_PlainVisual ==
  (/\ pc # "loop"
   /\ ~ascii_symbols
   /\ \A k \in 1..Len(stream) : stream[k] \notin PlainSymbols)
    => LET r == parse(FSeq(stream), utf8_names, TRUE)
       IN r.pc = pc /\ r.exc.type = exc.type /\ r.ast = FBranch(ast)

\* An accepted visual program with a name made of a symbol.
C8_Witness ==
  /\ ~ascii_symbols
  /\ pc = "returned"
  /\ Len(ast) = 3
  /\ ast[1] = name
  /\ IsStr(ast[2])
  /\ ast[2].str = <<Symbol.key>>

\* The name literals of branch x and of its nested branches.
RECURSIVE NameLiterals(_)
NameLiterals(x) ==
  UNION {IF IsStr(x[k]) THEN {x[k].str}
         ELSE IF IsList(x[k]) THEN NameLiterals(x[k].list)
         ELSE {} : k \in 1..Len(x)}

\* The characters a name may hold in the current mode.
NameCharOK(char) ==
  /\ char # pen(ascii_symbols)
  /\ IF utf8_names THEN ~isspace(char) ELSE InSymbols(char, ascii_symbols)

\* C9: in raw a character other than the delimiter is added to the name
\* buffer iff (utf8_names and it is not whitespace) or it is an active
\* symbol; so a name literal never holds the delimiter, holds only active
\* symbols in restricted mode and no whitespace in unrestricted mode.
C9_NameChars ==
  /\ [][(ReadsChar /\ state = raw /\ CharRead # pen(ascii_symbols)) =>
          /\ name_stack' =
               IF (utf8_names /\ ~isspace(CharRead))
                    \/ InSymbols(CharRead, ascii_symbols)
                 THEN Append(name_stack, CharRead)
                 ELSE name_stack
          /\ UNCHANGED <<state, ast, stack_ptr, instruction, name_count, pc>>]_vars
  /\ [](\A n \in NameLiterals(ast) \cup {name_stack} :
          \A k \in 1..Len(n) : NameCharOK(n[k]))

\* Unrestricted mode: a name that kept a letter and dropped whitespace.
C9_Witness ==
  /\ utf8_names
  /\ Len(stream) = 4
  /\ isspace(stream[3])
  /\ Len(ast) = 2
  /\ IsStr(ast[2])
  /\ ast[2].str = <<"a">>

\* C10 (as claimed): every exception raised by parse carries the 0-based
\* offset of a character of the input.
C10_EveryErrorHasOffset ==
  pc = "raised" =>
    /\ "position" \in DOMAIN exc.msg
    /\ exc.msg.position \in 0..Len(stream)

\* C10 (amended): InvalidSymbol carries the 0-based offset of the symbol read
\* after the end of the program; UnexpectedEOF and InvalidArgumentCount carry
\* no offset.
C10_OffsetOnlyInInvalidSymbol ==
  pc = "raised" =>
    /\ exc.type \in {"InvalidSymbol", "UnexpectedEOF", "InvalidArgumentCount"}
    /\ exc.type = "InvalidSymbol" =>
         /\ "position" \in DOMAIN exc.msg
         /\ exc.msg.position = Len(stream) - 1
         /\ stream[exc.msg.position + 1] = exc.msg.char
         /\ InSymbols(exc.msg.char, ascii_symbols)
    /\ exc.type # "InvalidSymbol" => "position" \notin DOMAIN exc.msg

\* InvalidSymbol raised for the fourth character of the input.
C10_Witness ==
  /\ pc = "raised"
  /\ exc.type = "InvalidSymbol"
  /\ exc.msg.position = 3
\* C11: every run ends, with the AST returned or with one exception; each
\* iteration of the loop consumes exactly one character, and the
\* branch-closing loop of a nil removes no more directives than the cursor
\* path holds (the path never grows on a nil and grows by one on a split).
C11_Terminates ==
  /\ <>(pc # "loop")
  /\ [][pc # "loop" => pc' = pc]_vars
  /\ [](pc # "loop" => (pc = "returned") = (exc.type = "none"))
  /\ [][(pc = "loop" /\ ~AtEOF) =>
          /\ i' = i + 1
          /\ stream' = Append(stream, CharRead)
          /\ Len(stack_ptr') <= Len(stack_ptr) + 1
          /\ (state = idle /\ CharRead = symbols(ascii_symbols)[1])
               => Len(stack_ptr') <= Len(stack_ptr)]_vars

\* A finished run whose last nil removed two directives from the path.
C11_Witness ==
  /\ pc = "returned"
  /\ Len(stream) = 5
  /\ LET m == scan(initial, SubSeq(stream, 1, 4), 1, utf8_names, ascii_symbols)
     IN m.stack_ptr = <<-1, -1>>
\* The instruction symbols and quoted names of a rendering, left to right.
Rendered(x) == SelectSeq(__str__(x), LAMBDA piece : piece.kind # "indent")

\* What a step that reads CharRead appends to the AST, as it is rendered: the
\* instruction's symbol in idle, the buffered name at a delimiter in raw.
AppendedBy(char) ==
  IF state = idle /\ InSymbols(char, ascii_symbols)
    THEN <<[kind |-> "Instruction",
            text |-> <<instructions[index(char, ascii_symbols) + 1].symbol, " ">>]>>
  ELSE IF state = raw /\ char = pen(ascii_symbols)
    THEN <<[kind |-> "str", text |-> <<"'">> \o name_stack \o <<"'", " ">>]>>
  ELSE <<>>

\* C12: the rendering of the empty AST holds nothing, and every step of the
\* scan extends the symbols and names of the rendering at its right end by
\* exactly what the step appends to the AST; so they stand, left to right,
\* in the order in which they were appended.
C12_RenderOrder ==
  /\ Rendered(<<>>) = <<>>
  /\ [][IF ReadsChar
          THEN Rendered(ast') = Rendered(ast) \o AppendedBy(CharRead)
          ELSE Rendered(ast') = Rendered(ast)]_vars

\* An accepted program with a split nested in a branch of a split.
C12_Witness ==
  /\ pc = "returned"
  /\ \E k \in 1..Len(__str__(ast)) :
       /\ __str__(ast)[k].kind = "indent"
       /\ Len(__str__(ast)[k].text) = 5
\* The number of trailing -1 (SecondBranch) directives of path sp.
TrailingSeconds(sp) ==
  CHOOSE n \in 0..Len(sp) :
    /\ \A k \in (Len(sp) - n + 1)..Len(sp) : sp[k] = -1
    /\ n < Len(sp) => sp[Len(sp) - n] # -1

\* The branch reached from branch x by following path sp.
RECURSIVE BranchAt(_, _)
BranchAt(x, sp) ==
  IF sp = <<>> THEN x
  ELSE BranchAt(x[PyIndex(Len(x), sp[1])].list, Tail(sp))

\* A step that reads a nil symbol in idle.
ReadsNil == ReadsChar /\ state = idle /\ CharRead = symbols(ascii_symbols)[1]

\* C13: a nil read in idle removes every trailing -1 of the cursor path; if
\* nothing is left the machine becomes blank; otherwise the last directive
\* left is -2, it becomes -1 in place, the machine stays idle, and the path
\* then addresses the still empty second sibling of a split whose first
\* sibling is written.
C13_BranchClosing ==
  [][ReadsNil =>
       LET n    == TrailingSeconds(stack_ptr)
           rest == SubSeq(stack_ptr, 1, Len(stack_ptr) - n)
       IN IF rest = <<>>
            THEN state' = blank /\ stack_ptr' = <<>>
            ELSE /\ rest[Len(rest)] = -2
                 /\ stack_ptr' = [rest EXCEPT ![Len(rest)] = -1]
                 /\ state' = idle
                 /\ BranchAt(ast', stack_ptr') = <<>>
                 /\ BranchAt(ast', rest) # <<>>
                 /\ LET parent == BranchAt(ast', SubSeq(rest, 1, Len(rest) - 1))
                    IN /\ Len(parent) >= 3
                       /\ parent[Len(parent) - 2] = split]_vars

\* A nil that removed one -1 and moved the path to the second sibling of the
\* outer split.
C13_Witness ==
  /\ pc = "loop"
  /\ state = idle
  /\ stack_ptr = <<-1>>
  /\ Len(stream) = 4
  /\ LET m == scan(initial, SubSeq(stream, 1, 3), 1, utf8_names, ascii_symbols)
     IN m.stack_ptr = <<-2, -1>>
\* Following path sp from branch x, every directive is -2 or -1 and selects,
\* within range, a nested branch: one of the two branches that end x and
\* directly follow a split, -2 the earlier and -1 the later.
RECURSIVE PathValid(_, _)
PathValid(x, sp) ==
  sp # <<>> =>
    /\ sp[1] \in {-2, -1}
    /\ Len(x) >= 3
    /\ x[Len(x) - 2] = split
    /\ IsList(x[Len(x) - 1])
    /\ IsList(x[Len(x)])
    /\ PyIndex(Len(x), sp[1]) = (IF sp[1] = -2 THEN Len(x) - 1 ELSE Len(x))
    /\ PathValid(x[PyIndex(Len(x), sp[1])].list, Tail(sp))

\* In branch x and its nested branches nothing follows the two branches
\* appended with a split.
RECURSIVE PairsLast(_)
PairsLast(x) ==
  \A k \in 1..Len(x) :
    /\ x[k] = split => Len(x) = k + 2
    /\ IsList(x[k]) => PairsLast(x[k].list)

\* C14: in every state AST.push would not fail on the cursor path, the path
\* leads level by level to one of the two sibling branches of the split that
\* opened the level, and no branch has received an element after the sibling
\* pair of a split.
C14_PathValid ==
  /\ exc.type # "IndexError"
  /\ ~push_raises(ast, stack_ptr)
  /\ PathValid(ast, stack_ptr)
  /\ PairsLast(ast)

\* A path through the second sibling of one split into the first of another.
C14_Witness ==
  /\ stack_ptr = <<-1, -2>>
  /\ BranchAt(ast, <<-1>>) # <<>>
\* C15: an instruction of arity n > 0 read in idle starts name collection
\* with count 0 and an empty buffer; in raw the count stays below n; every
\* delimiter appends to the current branch exactly one name literal, the
\* buffer's content (possibly empty), empties the buffer and counts one; the
\* machine returns to idle exactly at the n-th delimiter; any other
\* character leaves the machine in raw with the same count and at most
\* itself added to the buffer.
C15_NameCollection ==
  /\ [](state = raw => instruction.args > 0 /\ name_count < instruction.args)
  /\ [](state # raw => name_stack = <<>>)
  /\ [][(ReadsChar /\ state = idle) =>
          (state' = raw) =
            (/\ InSymbols(CharRead, ascii_symbols)
             /\ instructions[index(CharRead, ascii_symbols) + 1].args > 0
             /\ instruction' = instructions[index(CharRead, ascii_symbols) + 1]
             /\ name_count' = 0
             /\ name_stack' = <<>>)]_vars
  /\ [][(ReadsChar /\ state = raw) =>
          IF CharRead = pen(ascii_symbols)
            THEN /\ name_count' = name_count + 1
                 /\ BranchAt(ast', stack_ptr) =
                      Append(BranchAt(ast, stack_ptr), [str |-> name_stack])
                 /\ name_stack' = <<>>
                 /\ state' = (IF name_count' = instruction.args THEN idle ELSE raw)
                 /\ pc' = "loop"
                 /\ UNCHANGED <<stack_ptr, instruction>>
            ELSE /\ name_stack' \in {name_stack, Append(name_stack, CharRead)}
                 /\ UNCHANGED <<state, ast, stack_ptr, instruction, name_count, pc>>]_vars

\* decrypt closed by its second delimiter, the first name not empty, the
\* second one empty.
C15_Witness ==
  /\ pc = "loop"
  /\ state = idle
  /\ instruction = decrypt
  /\ name_count = 2
  /\ Len(ast) = 3
  /\ IsStr(ast[2])
  /\ ast[2].str # <<>>
  /\ IsStr(ast[3])
  /\ ast[3].str = <<>>
\* Branch y is branch x with elements appended, if any, at the end of the
\* branch that path sp addresses, and nothing else changed.
RECURSIVE ExtendsAt(_, _, _)
ExtendsAt(x, y, sp) ==
  IF sp = <<>>
    THEN Len(y) >= Len(x) /\ SubSeq(y, 1, Len(x)) = x
    ELSE LET p == PyIndex(Len(x), sp[1])
         IN /\ Len(y) = Len(x)
            /\ \A k \in 1..Len(x) : k # p => y[k] = x[k]
            /\ IsList(y[p])
            /\ ExtendsAt(x[p].list, y[p].list, Tail(sp))

\* C16: the AST is empty at the start, and every step leaves it unchanged or
\* appends elements at the end of the branch the cursor path addresses: no
\* element is removed, replaced or reordered and no other branch changes.
C16_AppendOnly ==
  /\ ast = <<>>
  /\ [][ExtendsAt(ast, ast', stack_ptr)]_vars
  /\ [][~ReadsChar => ast' = ast]_vars

\* An instruction appended to a branch two levels below the root.
C16_Witness ==
  /\ Len(stack_ptr) = 2
  /\ BranchAt(ast, stack_ptr) # <<>>
\* C17: blank is absorbing. In blank the cursor path and the name buffer are
\* empty; no step from blank changes the state, the AST, the path, the
\* buffer, the instruction or the count; a character read in blank is either
\* skipped (the run goes on, no exception) or raises InvalidSymbol.
C17_BlankAbsorbing ==
  /\ [](state = blank => stack_ptr = <<>> /\ name_stack = <<>>)
  /\ [][state = blank =>
          /\ state' = blank
          /\ UNCHANGED <<ast, stack_ptr, name_stack, instruction, name_count>>
          /\ ReadsChar =>
               \/ pc' = "loop" /\ exc' = exc
               \/ pc' = "raised" /\ exc'.type = "InvalidSymbol"]_vars

\* Two characters skipped in blank, then InvalidSymbol.
C17_Witness ==
  /\ state = blank
  /\ pc = "raised"
  /\ Len(stream) = 4
  /\ ~InSymbols(stream[2], ascii_symbols)
  /\ ~InSymbols(stream[3], ascii_symbols)
\* The number of -2 (FirstBranch) directives of path sp.
Firsts(sp) == Cardinality({k \in 1..Len(sp) : sp[k] = -2})

\* Split and nil symbols read in idle so far.
SplitsConsumed == ConsumedIn(stream, symbols(ascii_symbols)[2], idle)

NilsConsumed == ConsumedIn(stream, symbols(ascii_symbols)[1], idle)

\* C18: while the machine is not blank the cursor path holds as many -2
\* directives as splits minus nils were read in idle (so nils never exceed
\* splits); the machine is blank exactly when the nils read are one more
\* than the splits; the path is never longer than the number of splits read.
C18_Counting ==
  /\ state # blank =>
       /\ Firsts(stack_ptr) = SplitsConsumed - NilsConsumed
       /\ NilsConsumed <= SplitsConsumed
  /\ (state = blank) = (NilsConsumed = SplitsConsumed + 1)
  /\ Len(stack_ptr) <= SplitsConsumed

\* Blank reached by the third nil after two splits.
C18_Witness ==
  /\ state = blank
  /\ SplitsConsumed = 2
  /\ NilsConsumed = 3
====
